---- MODULE Spec2Model ----
(***************************************************************************)
(* Model of zmwangx/infrastructure.py: NormalizedStringIO, Tee and the     *)
(* context managers capture_stdout, capture_stderr, tee_stderr and         *)
(* change_home.                                                            *)
(*                                                                         *)
(* Text (str) is a sequence of code points, bytes a sequence of byte       *)
(* values.  A Python value handed to write() is a record                   *)
(*   [tag |-> its type name, v |-> its content].                           *)
(* An outcome of a call carries exc, the name of the exception raised, or  *)
(* "none".                                                                 *)
(***************************************************************************)
EXTENDS Integers, Sequences, FiniteSets, TLC

VARIABLES
    sio,        \* a NormalizedStringIO object used on its own
    log,        \* arguments of the write calls made so far (history); on a
                \* Tee, of those made while it is open and before any
                \* writelines
    textio,     \* Tee._textio: the wrapped stream R
    stringio,   \* Tee._stringio: the Tee's NormalizedStringIO
    ncalls,     \* number of write calls made on the Tee
    nwritelines, \* number of writelines calls made on the Tee
    last,       \* the last call made and its outcome
    heap,       \* stream objects of the process, by reference
    sys_stdout, \* sys.stdout: a reference into heap
    sys_stderr, \* sys.stderr: a reference into heap
    environ,    \* os.environ['HOME'], or Unset
    fs,         \* directories that exist on the filesystem
    stack,      \* the with-blocks currently entered, innermost last
    nblocks,    \* number of with-blocks entered so far
    nwrites,    \* number of writes made to sys.stdout / sys.stderr
    outside     \* texts written to sys.stdout with no capture_stdout block
                \* entered (history)

vars == <<sio, log, textio, stringio, ncalls, nwritelines, last, heap,
          sys_stdout, sys_stderr, environ, fs, stack, nblocks, nwrites,
          outside>>

bufVars == <<sio, log>>
teeVars == <<textio, stringio, ncalls, nwritelines>>
ctxVars == <<heap, sys_stdout, sys_stderr, environ, fs, stack, nblocks,
             nwrites, outside>>

----------------------------------------------------------------------------
(* Bounds *)

MaxLog == 3
MaxLines == 2
MaxCalls == 3
MaxWritelinesCalls == 1
MaxBlocks == 3
MaxWrites == 2

----------------------------------------------------------------------------
(* Python values *)

Str(cps) == [tag |-> "str", v |-> cps]
Bytes(bs) == [tag |-> "bytes", v |-> bs]
Other(t) == [tag |-> t, v |-> <<>>]

\* "", "h", "e-acute newline"
StrValues == {Str(<<>>), Str(<<104>>), Str(<<233, 10>>)}

\* b"h", e-acute, the euro sign; then a truncated sequence, an invalid lead
\* byte, an overlong encoding and an encoded surrogate
BytesValues ==
    {Bytes(<<104>>), Bytes(<<195, 169>>), Bytes(<<226, 130, 172>>),
     Bytes(<<195>>), Bytes(<<255>>), Bytes(<<192, 128>>),
     Bytes(<<237, 160, 128>>)}

OtherValues == {Other("int"), Other("NoneType")}

Values == StrValues \cup BytesValues \cup OtherValues

LineValues ==
    {Str(<<104>>), Str(<<233, 10>>), Bytes(<<195, 169>>), Bytes(<<255>>),
     Other("int")}

SeqsUpTo(S, n) == UNION {[1..k -> S] : k \in 0..n}

RECURSIVE Flatten(_)
Flatten(chunks) ==
    IF chunks = <<>> THEN <<>> ELSE Head(chunks) \o Flatten(Tail(chunks))

Ok(v) == [exc |-> "none", v |-> v]
Raise(e) == [exc |-> e, v |-> <<>>]

----------------------------------------------------------------------------
(* bytes.decode('utf-8'), strict *)

IsCont(b) == b >= 128 /\ b <= 191

RECURSIVE utf8_decode(_)
utf8_decode(bs) ==
    IF bs = <<>> THEN Ok(<<>>)
    ELSE
      LET b1 == bs[1]
          n == IF b1 < 128 THEN 1
               ELSE IF b1 >= 194 /\ b1 <= 223 THEN 2
               ELSE IF b1 >= 224 /\ b1 <= 239 THEN 3
               ELSE IF b1 >= 240 /\ b1 <= 244 THEN 4
               ELSE 0
          lo2 == IF b1 = 224 THEN 160 ELSE IF b1 = 240 THEN 144 ELSE 128
          hi2 == IF b1 = 237 THEN 159 ELSE IF b1 = 244 THEN 143 ELSE 191
          wellFormed ==
              /\ n > 0
              /\ Len(bs) >= n
              /\ n >= 2 => (bs[2] >= lo2 /\ bs[2] <= hi2)
              /\ \A i \in 3..n : IsCont(bs[i])
          cp == IF n = 1 THEN b1
                ELSE IF n = 2 THEN (b1 % 32) * 64 + (bs[2] % 64)
                ELSE IF n = 3
                  THEN (b1 % 16) * 4096 + (bs[2] % 64) * 64 + (bs[3] % 64)
                ELSE (b1 % 8) * 262144 + (bs[2] % 64) * 4096
                     + (bs[3] % 64) * 64 + (bs[4] % 64)
      IN IF ~wellFormed THEN Raise("UnicodeDecodeError")
         ELSE LET rest == utf8_decode(SubSeq(bs, n + 1, Len(bs)))
              IN IF rest.exc # "none" THEN rest
                 ELSE Ok(<<cp>> \o rest.v)

----------------------------------------------------------------------------
(* NormalizedStringIO.  An object is [value |-> text, closed |-> BOOLEAN]; *)
(* the stream position stays at the end of value, as nothing seeks.        *)

NewStringIO == [value |-> <<>>, closed |-> FALSE]

\* a normalized that takes whatever is not bytes for text
normalized_lenient(s) ==
    IF s.tag = "bytes" THEN utf8_decode(s.v) ELSE Ok(s.v)

\* a normalized that stores the byte values undecoded
normalized_raw(s) ==
    IF s.tag = "str" \/ s.tag = "bytes" THEN Ok(s.v) ELSE Raise("ValueError")

normalized(s) ==
    IF s.tag = "str" THEN Ok(s.v)
    ELSE IF s.tag = "bytes" THEN utf8_decode(s.v)
    ELSE Raise("ValueError")

\* io.StringIO.write(text)
StringIO_write(o, text) ==
    IF o.closed THEN [o |-> o, exc |-> "ValueError"]
    ELSE [o |-> [o EXCEPT !.value = @ \o text], exc |-> "none"]

\* io.StringIO.getvalue()
StringIO_getvalue(o) ==
    IF o.closed THEN Raise("ValueError") ELSE Ok(o.value)

NSIO_write(o, s) ==
    LET n == normalized(s)
    IN IF n.exc # "none" THEN [o |-> o, exc |-> n.exc]
       ELSE StringIO_write(o, n.v)

\* the list comprehension of writelines: the normalized lines, or the
\* exception of the first line that fails
RECURSIVE normalized_all(_)
normalized_all(lines) ==
    IF lines = <<>> THEN Ok(<<>>)
    ELSE LET n == normalized(Head(lines))
         IN IF n.exc # "none" THEN n
            ELSE LET rest == normalized_all(Tail(lines))
                 IN IF rest.exc # "none" THEN rest
                    ELSE Ok(<<n.v>> \o rest.v)

\* io.StringIO.writelines(texts): write each in turn
RECURSIVE StringIO_writelines(_, _)
StringIO_writelines(o, texts) ==
    IF o.closed THEN [o |-> o, exc |-> "ValueError"]
    ELSE IF texts = <<>> THEN [o |-> o, exc |-> "none"]
    ELSE StringIO_writelines(StringIO_write(o, Head(texts)).o, Tail(texts))

\* a writelines that normalizes and writes line by line
RECURSIVE NSIO_writelines_eager(_, _)
NSIO_writelines_eager(o, lines) ==
    IF lines = <<>> THEN [o |-> o, exc |-> "none"]
    ELSE LET r == NSIO_write(o, Head(lines))
         IN IF r.exc # "none" THEN r
            ELSE NSIO_writelines_eager(r.o, Tail(lines))

NSIO_writelines(o, lines) ==
    LET n == normalized_all(lines)
    IN IF n.exc # "none" THEN [o |-> o, exc |-> n.exc]
       ELSE StringIO_writelines(o, n.v)

----------------------------------------------------------------------------
(* Calls on a NormalizedStringIO created empty *)

NoCall == [op |-> "none", arg |-> Other("NoneType"), lines |-> <<>>,
           single_pass |-> FALSE, exc |-> "none", ret |-> FALSE]

Call(op, arg, lines, sp, exc) ==
    [op |-> op, arg |-> arg, lines |-> lines, single_pass |-> sp,
     exc |-> exc, ret |-> FALSE]

BufWrite(s) ==
    LET r == NSIO_write(sio, s)
    IN /\ Len(log) < MaxLog
       /\ sio' = r.o
       /\ log' = IF r.exc = "none" THEN Append(log, s) ELSE log
       /\ last' = Call("NormalizedStringIO.write", s, <<>>, FALSE, r.exc)
       /\ UNCHANGED <<teeVars, ctxVars>>

BufWritelines(lines) ==
    LET r == NSIO_writelines(sio, lines)
    IN /\ Len(log) + Len(lines) <= MaxLog
       /\ sio' = r.o
       /\ log' = IF r.exc = "none" THEN log \o lines ELSE log
       /\ last' = Call("NormalizedStringIO.writelines", Other("NoneType"), lines, FALSE,
                     r.exc)
       /\ UNCHANGED <<teeVars, ctxVars>>

BufNext ==
    \/ \E s \in Values : BufWrite(s)
    \/ \E lines \in SeqsUpTo(LineValues, MaxLines) : BufWritelines(lines)


----------------------------------------------------------------------------
(* The wrapped text stream R of a Tee: a host text stream,                 *)
(* [received |-> the texts its write was given, closed |-> BOOLEAN].       *)

NewTextIO == [received |-> <<>>, closed |-> FALSE]

\* R.write(s): a text stream takes str only
TextIO_write(o, s) ==
    IF s.tag # "str" THEN [o |-> o, exc |-> "TypeError"]
    ELSE IF o.closed THEN [o |-> o, exc |-> "ValueError"]
    ELSE [o |-> [o EXCEPT !.received = Append(@, s.v)], exc |-> "none"]

\* R.writelines(lines): write each line in turn; consumed is the number of
\* lines taken from the iterable when the call returns or raises
RECURSIVE TextIO_writelines(_, _, _)
TextIO_writelines(o, lines, taken) ==
    IF o.closed THEN [o |-> o, exc |-> "ValueError", consumed |-> taken]
    ELSE IF lines = <<>> THEN [o |-> o, exc |-> "none", consumed |-> taken]
    ELSE LET r == TextIO_write(o, Head(lines))
         IN IF r.exc # "none"
              THEN [o |-> r.o, exc |-> r.exc, consumed |-> taken + 1]
              ELSE TextIO_writelines(r.o, Tail(lines), taken + 1)

\* R.flush(): a text stream of the host refuses once closed
TextIO_flush(o) == IF o.closed THEN "ValueError" ELSE "none"

\* io.StringIO.flush(): does nothing, closed or not
StringIO_flush(o) == "none"

----------------------------------------------------------------------------
(* Tee.  A Tee is [textio |-> R, stringio |-> its NormalizedStringIO].     *)

tee == [textio |-> textio, stringio |-> stringio]

TeeOutcome(tio, sio2, exc) == [textio |-> tio, stringio |-> sio2, exc |-> exc]

\* a close that leaves the internal buffer open
Tee_close_textio_only(t) ==
    TeeOutcome([t.textio EXCEPT !.closed = TRUE], t.stringio, "none")

Tee_close(t) ==
    TeeOutcome([t.textio EXCEPT !.closed = TRUE],
               [t.stringio EXCEPT !.closed = TRUE], "none")

Tee_closed(t) == t.textio.closed

Tee_flush(t) ==
    IF TextIO_flush(t.textio) # "none"
      THEN TeeOutcome(t.textio, t.stringio, TextIO_flush(t.textio))
      ELSE TeeOutcome(t.textio, t.stringio, StringIO_flush(t.stringio))

Tee_getvalue(t) == StringIO_getvalue(t.stringio)

ReadOps == {"read", "readline", "readlines"}
SeekOps == {"seek", "tell", "truncate"}

\* Tee.read, Tee.readline, Tee.readlines
Tee_read(t, op) ==
    TeeOutcome(t.textio, t.stringio, "UnsupportedOperation")

\* Tee.seek, Tee.tell, Tee.truncate
Tee_seek(t, op) ==
    TeeOutcome(t.textio, t.stringio, "UnsupportedOperation")

\* a readable that answers for the internal buffer
Tee_readable_buffer(t) == ~t.stringio.closed

Tee_readable(t) == FALSE
Tee_seekable(t) == FALSE
Tee_writable(t) == TRUE

\* a write that forwards to the wrapped stream only
Tee_write_forward_only(t, s) ==
    LET r1 == TextIO_write(t.textio, s)
    IN TeeOutcome(r1.o, t.stringio, r1.exc)

Tee_write(t, s) ==
    LET r1 == TextIO_write(t.textio, s)
    IN IF r1.exc # "none" THEN TeeOutcome(r1.o, t.stringio, r1.exc)
       ELSE LET r2 == NSIO_write(t.stringio, s)
            IN TeeOutcome(r1.o, r2.o, r2.exc)

\* What a second iteration over lines yields after `consumed` elements were
\* taken by a first one: a list starts over, a single-pass iterator goes on
\* from where it stopped.
IterateAgain(lines, single_pass, consumed) ==
    IF single_pass THEN SubSeq(lines, consumed + 1, Len(lines)) ELSE lines

Tee_writelines(t, lines, single_pass) ==
    LET r1 == TextIO_writelines(t.textio, lines, 0)
    IN IF r1.exc # "none" THEN TeeOutcome(r1.o, t.stringio, r1.exc)
       ELSE LET r2 == NSIO_writelines(
                          t.stringio,
                          IterateAgain(lines, single_pass, r1.consumed))
            IN TeeOutcome(r1.o, r2.o, r2.exc)

----------------------------------------------------------------------------
(* Calls on a Tee wrapping an open writable stream *)

TeeValues == {Str(<<104>>), Str(<<233, 10>>), Bytes(<<104>>)}

\* "h" as text; e-acute as bytes, which a text stream refuses
TeeLineValues == {Str(<<104>>), Bytes(<<195, 169>>)}

TeeWrite(s) ==
    LET r == Tee_write(tee, s)
    IN /\ ncalls < MaxCalls
       /\ ncalls' = ncalls + 1
       /\ textio' = r.textio
       /\ stringio' = r.stringio
       /\ log' = IF Tee_closed(tee) \/ nwritelines > 0 THEN log
                 ELSE Append(log, s)
       /\ last' = Call("Tee.write", Other(s.tag), <<>>, FALSE, r.exc)
       /\ UNCHANGED <<sio, nwritelines, ctxVars>>

TeeWritelines(lines, single_pass) ==
    LET r == Tee_writelines(tee, lines, single_pass)
    IN /\ nwritelines < MaxWritelinesCalls
       /\ nwritelines' = nwritelines + 1
       /\ textio' = r.textio
       /\ stringio' = r.stringio
       /\ last' = Call("Tee.writelines", Other("NoneType"), <<>>,
                       single_pass, r.exc)
       /\ UNCHANGED <<sio, log, ncalls, ctxVars>>

TeeFlush ==
    LET r == Tee_flush(tee)
    IN /\ textio' = r.textio
       /\ stringio' = r.stringio
       /\ last' = Call("Tee.flush", Other("NoneType"), <<>>, FALSE, r.exc)
       /\ UNCHANGED <<sio, log, ncalls, nwritelines, ctxVars>>

TeeClose ==
    LET r == Tee_close(tee)
    IN /\ textio' = r.textio
       /\ stringio' = r.stringio
       /\ last' = Call("Tee.close", Other("NoneType"), <<>>, FALSE, r.exc)
       /\ UNCHANGED <<sio, log, ncalls, nwritelines, ctxVars>>

TeeGetvalue ==
    /\ last' = Call("Tee.getvalue", Other("NoneType"), <<>>, FALSE,
                    Tee_getvalue(tee).exc)
    /\ UNCHANGED <<bufVars, teeVars, ctxVars>>

TeeRead(op) ==
    LET r == Tee_read(tee, op)
    IN /\ textio' = r.textio
       /\ stringio' = r.stringio
       /\ last' = Call(op, Other("int"), <<>>, FALSE, r.exc)
       /\ UNCHANGED <<sio, log, ncalls, nwritelines, ctxVars>>

TeeSeek(op) ==
    LET r == Tee_seek(tee, op)
    IN /\ textio' = r.textio
       /\ stringio' = r.stringio
       /\ last' = Call(op, Other("int"), <<>>, FALSE, r.exc)
       /\ UNCHANGED <<sio, log, ncalls, nwritelines, ctxVars>>

TeeReadable ==
    /\ last' = [Call("readable", Other("NoneType"), <<>>, FALSE, "none")
                  EXCEPT !.ret = Tee_readable(tee)]
    /\ UNCHANGED <<bufVars, teeVars, ctxVars>>

TeeSeekable ==
    /\ last' = [Call("seekable", Other("NoneType"), <<>>, FALSE, "none")
                  EXCEPT !.ret = Tee_seekable(tee)]
    /\ UNCHANGED <<bufVars, teeVars, ctxVars>>

TeeWritable ==
    /\ last' = [Call("writable", Other("NoneType"), <<>>, FALSE, "none")
                  EXCEPT !.ret = Tee_writable(tee)]
    /\ UNCHANGED <<bufVars, teeVars, ctxVars>>

TeeNext ==
    \/ \E s \in TeeValues : TeeWrite(s)
    \/ \E lines \in SeqsUpTo(TeeLineValues, MaxLines), sp \in BOOLEAN :
         TeeWritelines(lines, sp)
    \/ TeeFlush
    \/ TeeClose
    \/ TeeGetvalue
    \/ \E op \in ReadOps : TeeRead(op)
    \/ \E op \in SeekOps : TeeSeek(op)
    \/ TeeReadable
    \/ TeeSeekable
    \/ TeeWritable

Unset == "<unset>"

----------------------------------------------------------------------------
(* Process-wide state: the streams behind sys.stdout and sys.stderr, the   *)
(* HOME environment variable and the temporary directories.                *)
(*                                                                         *)
(* A heap object is [kind, io, textio]: kind "real" for a stream of the    *)
(* host with io its text-stream state, kind "nsio" for a                   *)
(* NormalizedStringIO with io its state, kind "tee" for a Tee with textio  *)
(* the reference of the wrapped stream and io its internal buffer.         *)

RealStream == [kind |-> "real", io |-> NewTextIO, textio |-> 0]
NewNSIO == [kind |-> "nsio", io |-> NewStringIO, textio |-> 0]
NewTee(ref) == [kind |-> "tee", io |-> NewStringIO, textio |-> ref]

\* stream.writable() of a heap object
Writable(h, ref) == ~h[ref].io.closed

\* stream.write(s) on the object a reference names
RECURSIVE HeapWrite(_, _, _)
HeapWrite(h, ref, s) ==
    LET o == h[ref]
    IN IF o.kind = "real"
         THEN LET r == TextIO_write(o.io, s)
              IN [heap |-> [h EXCEPT ![ref].io = r.o], exc |-> r.exc]
       ELSE IF o.kind = "nsio"
         THEN LET r == NSIO_write(o.io, s)
              IN [heap |-> [h EXCEPT ![ref].io = r.o], exc |-> r.exc]
       ELSE LET r1 == HeapWrite(h, o.textio, s)
            IN IF r1.exc # "none" THEN r1
               ELSE LET r2 == NSIO_write(o.io, s)
                    IN [heap |-> [r1.heap EXCEPT ![ref].io = r2.o],
                        exc |-> r2.exc]

\* getvalue() of the object a reference names
HeapGetvalue(h, ref) == StringIO_getvalue(h[ref].io)

None == "<None>"

\* tempfile.mkdtemp(): a directory that did not exist before
mkdtemp(n) == "/tmp/tmp" \o ToString(n)

Managers == {"capture_stdout", "capture_stderr", "tee_stderr", "change_home"}

\* A with-block that has been entered: the locals of the generator
\* suspended at its yield (saved_stdout or saved_stderr as saved_ref,
\* saved_home, tmp_home), and as history the object it put in the global
\* (sub) and the texts written to sys.stdout while it was the innermost
\* capture_stdout block (written).
Frame(mgr, saved_ref, saved_home, tmp_home, sub) ==
    [mgr |-> mgr, saved_ref |-> saved_ref, saved_home |-> saved_home,
     tmp_home |-> tmp_home, sub |-> sub, written |-> <<>>]

Top == stack[Len(stack)]
Pop == SubSeq(stack, 1, Len(stack) - 1)

\* the code of capture_stdout up to its yield
EnterCaptureStdout ==
    /\ heap' = Append(heap, NewNSIO)
    /\ sys_stdout' = Len(heap) + 1
    /\ stack' = Append(stack, Frame("capture_stdout", sys_stdout, None, None,
                                    Len(heap) + 1))
    /\ UNCHANGED <<sys_stderr, environ, fs>>

\* the code of capture_stderr up to its yield
EnterCaptureStderr ==
    /\ heap' = Append(heap, NewNSIO)
    /\ sys_stderr' = Len(heap) + 1
    /\ stack' = Append(stack, Frame("capture_stderr", sys_stderr, None, None,
                                    Len(heap) + 1))
    /\ UNCHANGED <<sys_stdout, environ, fs>>

\* the code of tee_stderr up to its yield; Tee.__init__ refuses a stream
\* that is not writable
EnterTeeStderr ==
    /\ Writable(heap, sys_stderr)
    /\ heap' = Append(heap, NewTee(sys_stderr))
    /\ sys_stderr' = Len(heap) + 1
    /\ stack' = Append(stack, Frame("tee_stderr", sys_stderr, None, None,
                                    Len(heap) + 1))
    /\ UNCHANGED <<sys_stdout, environ, fs>>

\* the code of change_home up to its yield
EnterChangeHome ==
    LET saved_home == IF environ # Unset THEN environ ELSE None
        tmp_home == mkdtemp(nblocks + 1)
    IN /\ fs' = fs \cup {tmp_home}
       /\ environ' = tmp_home
       /\ stack' = Append(stack, Frame("change_home", 0, saved_home,
                                       tmp_home, 0))
       /\ UNCHANGED <<heap, sys_stdout, sys_stderr>>

Enter(mgr) ==
    /\ nblocks < MaxBlocks
    /\ nblocks' = nblocks + 1
    /\ CASE mgr = "capture_stdout" -> EnterCaptureStdout
         [] mgr = "capture_stderr" -> EnterCaptureStderr
         [] mgr = "tee_stderr" -> EnterTeeStderr
         [] mgr = "change_home" -> EnterChangeHome
    /\ last' = Call("enter", Other(mgr), <<>>, FALSE, "none")
    /\ UNCHANGED <<bufVars, teeVars, nwrites, outside>>

\* The body of the innermost block ends normally: the generator is resumed
\* and runs the code after its yield.
ExitNormal ==
    /\ stack # <<>>
    /\ stack' = Pop
    /\ CASE Top.mgr = "capture_stdout" ->
              /\ sys_stdout' = Top.saved_ref
              /\ UNCHANGED <<sys_stderr, environ, fs>>
         [] Top.mgr \in {"capture_stderr", "tee_stderr"} ->
              /\ sys_stderr' = Top.saved_ref
              /\ UNCHANGED <<sys_stdout, environ, fs>>
         [] Top.mgr = "change_home" ->
              /\ fs' = fs \ {Top.tmp_home}
              /\ environ' = IF Top.saved_home # None THEN Top.saved_home
                            ELSE environ
              /\ UNCHANGED <<sys_stdout, sys_stderr>>
    /\ last' = Call("exit", Other(Top.mgr), <<>>, FALSE, "none")
    /\ UNCHANGED <<bufVars, teeVars, heap, nblocks, nwrites, outside>>

\* The body of the innermost block raises: the exception is thrown into the
\* generator at its yield, which no try statement encloses, so the generator
\* ends there and the exception goes on to the caller of the with statement
\* (an except clause, or the next block out).
ExitRaise ==
    /\ stack # <<>>
    /\ stack' = Pop
    /\ last' = Call("raise", Other(Top.mgr), <<>>, FALSE, "Exception")
    /\ UNCHANGED <<bufVars, teeVars, heap, sys_stdout, sys_stderr, environ,
                   fs, nblocks, nwrites, outside>>

CaptureStdoutFrames ==
    {i \in 1..Len(stack) : stack[i].mgr = "capture_stdout"}

Max(S) == CHOOSE m \in S : \A k \in S : k <= m

\* sys.stdout.write(s)
WriteStdout(s) ==
    LET r == HeapWrite(heap, sys_stdout, s)
    IN /\ nwrites < MaxWrites
       /\ nwrites' = nwrites + 1
       /\ heap' = r.heap
       /\ IF CaptureStdoutFrames = {}
            THEN outside' = Append(outside, s.v) /\ stack' = stack
            ELSE /\ stack' = [stack EXCEPT
                                ![Max(CaptureStdoutFrames)].written =
                                    Append(@, s.v)]
                 /\ outside' = outside
       /\ last' = Call("sys.stdout.write", s, <<>>, FALSE, r.exc)
       /\ UNCHANGED <<bufVars, teeVars, sys_stdout, sys_stderr, environ, fs,
                      nblocks>>

\* sys.stderr.write(s)
WriteStderr(s) ==
    LET r == HeapWrite(heap, sys_stderr, s)
    IN /\ nwrites < MaxWrites
       /\ nwrites' = nwrites + 1
       /\ heap' = r.heap
       /\ last' = Call("sys.stderr.write", s, <<>>, FALSE, r.exc)
       /\ UNCHANGED <<bufVars, teeVars, sys_stdout, sys_stderr, environ, fs,
                      stack, nblocks, outside>>

\* "h", "i"
CtxValues == {Str(<<104>>), Str(<<105>>)}

CtxNext ==
    \/ \E mgr \in Managers : Enter(mgr)
    \/ ExitNormal
    \/ ExitRaise
    \/ \E s \in CtxValues : WriteStdout(s)
    \/ \E s \in CtxValues : WriteStderr(s)

----------------------------------------------------------------------------
(* Specifications *)

InitRest ==
    /\ sio = NewStringIO
    /\ log = <<>>
    /\ textio = NewTextIO
    /\ stringio = NewStringIO
    /\ ncalls = 0
    /\ nwritelines = 0
    /\ last = NoCall
    /\ heap = <<>>
    /\ sys_stdout = 0
    /\ sys_stderr = 0
    /\ environ = Unset
    /\ fs = {}
    /\ stack = <<>>
    /\ nblocks = 0
    /\ nwrites = 0
    /\ outside = <<>>

BufInit == InitRest

SpecBuf == BufInit /\ [][BufNext]_vars

TeeInit == InitRest

SpecTee == TeeInit /\ [][TeeNext]_vars

\* the process before any block is entered: the host's stdout and stderr,
\* and HOME set or not
CtxInit ==
    /\ sio = NewStringIO
    /\ log = <<>>
    /\ textio = NewTextIO
    /\ stringio = NewStringIO
    /\ ncalls = 0
    /\ nwritelines = 0
    /\ last = NoCall
    /\ heap = <<RealStream, RealStream>>
    /\ sys_stdout = 1
    /\ sys_stderr = 2
    /\ environ \in {"/original", Unset}
    /\ fs = {}
    /\ stack = <<>>
    /\ nblocks = 0
    /\ nwrites = 0
    /\ outside = <<>>

SpecCtx == CtxInit /\ [][CtxNext]_vars

----------------------------------------------------------------------------
(* Claims about Tee, checked under SpecTee *)

AllText(args) == \A i \in 1..Len(args) : args[i].tag = "str"

\* C3: for a Tee wrapping an open writable stream R, after write(s1), ...,
\* write(sn) with text values, R has received exactly s1, ..., sn in that
\* order and getvalue() is s1 + ... + sn.
C3_WritesReachBoth ==
    (~Tee_closed(tee) /\ nwritelines = 0 /\ Len(log) = ncalls /\ AllText(log))
      => /\ textio.received = [i \in 1..Len(log) |-> log[i].v]
         /\ Tee_getvalue(tee).exc = "none"
         /\ Tee_getvalue(tee).v = Flatten([i \in 1..Len(log) |-> log[i].v])

\* three texts have been written, the last two different
C3_Witness ==
    /\ ~Tee_closed(tee)
    /\ nwritelines = 0
    /\ log = <<Str(<<104>>), Str(<<233, 10>>), Str(<<104>>)>>
    /\ last.op = "Tee.write"
    /\ last.exc = "none"
    /\ stringio.value = <<104, 233, 10, 104>>

C5_WritelinesReachBoth ==
    [][\A lines \in SeqsUpTo(TeeLineValues, MaxLines), sp \in BOOLEAN :
         (TeeWritelines(lines, sp) /\ AllText(lines) /\ ~Tee_closed(tee))
           => /\ textio'.received
                   = textio.received \o [i \in 1..Len(lines) |-> lines[i].v]
              /\ stringio'.value
                   = stringio.value
                       \o Flatten([i \in 1..Len(lines) |-> lines[i].v])]_vars

----------------------------------------------------------------------------
(* Claims about the context managers, checked under SpecCtx *)

\* the value of HOME that a saved_home stands for
HomeAtEntry(f) == IF f.saved_home = None THEN Unset ELSE f.saved_home

\* the global a block swapped is again what it was when the block was
\* entered
RestoredAfter(f) ==
    CASE f.mgr = "capture_stdout" -> sys_stdout' = f.saved_ref
      [] f.mgr \in {"capture_stderr", "tee_stderr"} ->
           sys_stderr' = f.saved_ref
      [] f.mgr = "change_home" -> environ' = HomeAtEntry(f)

\* C1: when the body of a capture_stdout, capture_stderr, tee_stderr or
\* change_home block raises, the swapped global (sys.stdout, sys.stderr,
\* HOME) is back to its value before entry by the time the exception
\* reaches the caller.
C1_RestoredOnException ==
    [][last'.op = "raise" => RestoredAfter(Top)]_vars

\* C2: on normal exit of change_home the temporary directory is deleted and
\* HOME is as before entry: its prior value if it was set, absent if it was
\* unset.
C2_HomeRestoredOnExit ==
    [][(last'.op = "exit" /\ Top.mgr = "change_home")
         => /\ Top.tmp_home \notin fs'
            /\ environ' = HomeAtEntry(Top)]_vars

\* C9: every text written to sys.stdout within a capture_stdout block is in
\* the buffer the block substituted, the target sys.stdout had when the
\* block was entered receives none of it, and a normal exit of the block
\* puts that target back, also under nesting.
C9_Accumulated ==
    \A i \in CaptureStdoutFrames :
        /\ HeapGetvalue(heap, stack[i].sub).exc = "none"
        /\ HeapGetvalue(heap, stack[i].sub).v = Flatten(stack[i].written)

C9_CaptureStdout ==
    [][/\ C9_Accumulated'
       /\ (last'.op = "sys.stdout.write" /\ CaptureStdoutFrames # {})
            => LET f == stack[Max(CaptureStdoutFrames)]
               IN heap'[f.saved_ref] = heap[f.saved_ref]
       /\ (last'.op = "exit" /\ Top.mgr = "capture_stdout")
            => sys_stdout' = Top.saved_ref]_vars

----------------------------------------------------------------------------
(* Claims about NormalizedStringIO, checked under SpecBuf *)

IsTextOrBytes(s) == s.tag = "str" \/ s.tag = "bytes"

\* C6: a write of a value that is neither str nor bytes raises ValueError
\* and leaves the buffer as it was: getvalue() after equals getvalue()
\* before.
C6_InvalidWriteLeavesBuffer ==
    [][(last'.op = "NormalizedStringIO.write" /\ ~IsTextOrBytes(last'.arg))
         => /\ last'.exc = "ValueError"
            /\ sio' = sio
            /\ StringIO_getvalue(sio') = StringIO_getvalue(sio)]_vars

\* a write of a non-str, non-bytes value has failed on a non-empty buffer
C6_Witness ==
    /\ last.op = "NormalizedStringIO.write"
    /\ last.arg.tag = "int"
    /\ last.exc = "ValueError"
    /\ sio.value = <<104, 233>>

\* the text an argument stands for: itself if str, its UTF-8 decoding if
\* bytes
TextOf(s) == IF s.tag = "str" THEN s.v ELSE utf8_decode(s.v).v

\* C7: for a buffer created empty, getvalue() is the concatenation, in call
\* order, of the arguments of the successful writes, text as-is and bytes
\* UTF-8-decoded; the buffer holds code points, never the byte values.
C7_GetvalueIsConcatenation ==
    LET g == StringIO_getvalue(sio)
    IN /\ g.exc = "none"
       /\ g.v = Flatten([i \in 1..Len(log) |-> TextOf(log[i])])
       /\ \A i \in 1..Len(log) :
             log[i] = Bytes(<<195, 169>>) => TextOf(log[i]) = <<233>>
       /\ \A i \in 1..Len(log) :
             log[i] = Bytes(<<226, 130, 172>>) => TextOf(log[i]) = <<8364>>

\* "h" as text, then e-acute as bytes, then the euro sign as bytes
C7_Witness ==
    /\ log = <<Str(<<104>>), Bytes(<<195, 169>>), Bytes(<<226, 130, 172>>)>>
    /\ sio.value = <<104, 233, 8364>>

\* C10: writelines is all-or-nothing: if any line is neither str nor bytes,
\* or is bytes that are not valid UTF-8, the call fails and the buffer is
\* exactly what it was before the call.
C10_WritelinesAllOrNothing ==
    [][(/\ last'.op = "NormalizedStringIO.writelines"
        /\ \E i \in 1..Len(last'.lines) :
              normalized(last'.lines[i]).exc # "none")
         => /\ last'.exc # "none"
            /\ sio' = sio]_vars

\* a writelines whose first line is valid text and whose second line is not
\* valid has failed on a non-empty buffer
C10_Witness ==
    /\ last.op = "NormalizedStringIO.writelines"
    /\ last.exc = "UnicodeDecodeError"
    /\ last.lines = <<Str(<<104>>), Bytes(<<255>>)>>
    /\ sio.value = <<233>>

====
